---- MODULE Spec2Model ----
(***************************************************************************)
(* Model of stampy_chat/chat.py: the token allocator (cap), the prompt     *)
(* assembler (construct_prompt) and the streaming orchestrator             *)
(* (talk_to_robot_internal) with its two adapters.                         *)
(*                                                                         *)
(* A text is a sequence of one-character strings.  A token is the text it  *)
(* spells, so an encoded text is a sequence of texts.                      *)
(***************************************************************************)
EXTENDS Integers, Sequences, FiniteSets, TLC

VARIABLES
    pc,                     \* position of the generator talk_to_robot_internal
    entry,                  \* which function started the invocation
    query, mode, history,   \* arguments of the invocation
    session_id,             \* the session_id argument
    budget_manager,         \* the ledger: session id -> [total_budget, current_cost]
    top_k_blocks,           \* result of get_top_k_blocks / the context argument
    prompt,                 \* result of construct_prompt
    mod_res,                \* result of openai.Moderation.create
    max_tokens_completion,  \* the ceiling passed to litellm.completion
    response,               \* accumulated response text
    chunks,                 \* the deltas received from the completion stream so far
    events,                 \* the events yielded so far, in order
    calls,                  \* the collaborator calls made so far, in order
    raised,                 \* the messages of the exceptions raised so far
    result,                 \* what talk_to_robot_simple has returned
    parked,                 \* a second invocation, suspended while this one runs
    text, max_tokens,       \* arguments of a call of cap
    capped                  \* result of that call

vars == << pc, entry, query, mode, history, session_id, budget_manager,
           top_k_blocks, prompt, mod_res, max_tokens_completion, response,
           chunks, events, calls, raised, result, parked, text, max_tokens,
           capped >>

orchVars == << pc, entry, query, mode, history, session_id, budget_manager,
               top_k_blocks, prompt, mod_res, max_tokens_completion, response,
               chunks, events, calls, raised, result, parked >>

capVars == << text, max_tokens, capped >>

\* what no step of the generator changes
restVars == << text, max_tokens, capped, result, parked >>

None == "none"

-----------------------------------------------------------------------------
(* Bounds of the model *)

\* longest text handed to cap in the allocator specification
MaxTextLen == 4
\* largest token ceiling handed to cap in the allocator specification
MaxCeiling == 3
\* longest history enumerated in full in the assembler specification
MaxHistory == 2
\* most deltas one completion stream delivers
MaxChunks == 2
\* the total token budget, scaled down from the 4095 of chat.py line 25 so
\* that short texts reach the context and history limits
NUM_TOKENS == 80

-----------------------------------------------------------------------------
(* Sequences and texts *)

Min(a, b) == IF a <= b THEN a ELSE b

\* seq[:n] of Python for n >= 0
Take(seq, n) == SubSeq(seq, 1, Min(n, Len(seq)))

\* seq[::-1]
Reverse(seq) == [i \in 1..Len(seq) |-> seq[Len(seq) + 1 - i]]

IsPrefix(p, s) == Len(p) <= Len(s) /\ SubSeq(s, 1, Len(p)) = p

IsSuffix(p, s) == Len(p) <= Len(s) /\ SubSeq(s, Len(s) - Len(p) + 1, Len(s)) = p

\* all sequences over S of length at most n
RECURSIVE SeqsUpTo(_, _)
SeqsUpTo(S, n) ==
    IF n = 0 THEN { << >> }
    ELSE LET shorter == SeqsUpTo(S, n - 1)
         IN  shorter \cup { Append(s, x) : s \in { t \in shorter : Len(t) = n - 1 }, x \in S }

-----------------------------------------------------------------------------
(* The tokenizer ENCODER: a vocabulary of single characters and a few      *)
(* merged tokens, matched longest-first from the left.                     *)

Merges ==
    { << "a", "a" >>,
      << ".", ".", "." >>,
      << " ", ".", ".", "." >>,
      << " ", "-", " " >>,
      << "\n", "\n" >>,
      << "Q", ":" >>,
      << "s", "y", "s", "t", "e", "m" >>,
      << "u", "s", "e", "r" >>,
      << "a", "s", "s", "i", "s", "t", "a", "n", "t" >> }

\* length of the longest token that starts the non-empty text s
LongestMatch(s) ==
    LET lens == { 1 } \cup { Len(t) : t \in { u \in Merges : IsPrefix(u, s) } }
    IN  CHOOSE n \in lens : \A m \in lens : m <= n

\* ENCODER.encode
RECURSIVE Encode(_)
Encode(s) ==
    IF s = << >> THEN << >>
    ELSE LET n == LongestMatch(s)
         IN  << SubSeq(s, 1, n) >> \o Encode(SubSeq(s, n + 1, Len(s)))

\* ENCODER.decode
RECURSIVE Decode(_)
Decode(tokens) ==
    IF tokens = << >> THEN << >>
    ELSE Head(tokens) \o Decode(Tail(tokens))

\* len(ENCODER.encode(s))
TokenCount(s) == Len(Encode(s))

-----------------------------------------------------------------------------
(* cap: limit a string to a certain number of tokens *)

Ellipsis == << ".", ".", "." >>
Marker == << " ", ".", ".", "." >>

\* cap with the comparison of line 51 made strict
cap_strict(txt, maxTokens) ==
    IF maxTokens <= 0 THEN Ellipsis
    ELSE LET encoded_text == Encode(txt)
         IN  IF Len(encoded_text) < maxTokens THEN txt
             ELSE Decode(Take(encoded_text, maxTokens)) \o Marker

cap(txt, maxTokens) ==
    IF maxTokens <= 0 THEN Ellipsis
    ELSE LET encoded_text == Encode(txt)
         IN  IF Len(encoded_text) <= maxTokens THEN txt
             ELSE Decode(Take(encoded_text, maxTokens)) \o Marker

-----------------------------------------------------------------------------
(* construct_prompt *)

\* int(NUM_TOKENS * CONTEXT_FRACTION), CONTEXT_FRACTION = 0.5
ContextLimit == NUM_TOKENS \div 2

\* int(NUM_TOKENS * HISTORY_FRACTION), HISTORY_FRACTION = 0.25
HistoryLimit == NUM_TOKENS \div 4

\* the stop index of the slice history[:-10:-1]
HISTORY_STOP == 10

Whitespace == { " ", "\n" }

RECURSIVE LStrip(_)
LStrip(s) == IF s # << >> /\ Head(s) \in Whitespace THEN LStrip(Tail(s)) ELSE s

\* str.strip()
Strip(s) == Reverse(LStrip(Reverse(LStrip(s))))

\* sep.join(parts)
RECURSIVE Join(_, _)
Join(sep, parts) ==
    IF parts = << >> THEN << >>
    ELSE IF Len(parts) = 1 THEN parts[1]
    ELSE parts[1] \o sep \o Join(sep, Tail(parts))

Digits == { "0", "1", "2" }

\* number of digits at the start of s
RECURSIVE DigitRun(_)
DigitRun(s) == IF s # << >> /\ Head(s) \in Digits THEN 1 + DigitRun(Tail(s)) ELSE 0

\* re.sub(r"\[[0-9]+\]", "[x]", s)
RECURSIVE Censor(_)
Censor(s) ==
    IF s = << >> THEN << >>
    ELSE LET d == DigitRun(Tail(s))
         IN  IF Head(s) = "[" /\ d >= 1 /\ Len(s) >= d + 2 /\ s[d + 2] = "]"
             THEN << "[", "x", "]" >> \o Censor(SubSeq(s, d + 3, Len(s)))
             ELSE << Head(s) >> \o Censor(Tail(s))

\* the literal texts of construct_prompt, each shortened to a stand-in that
\* keeps its trailing blank line
SourcePreamble == << "S", "\n", "\n" >>
HistoryCaveat == << "\n", "\n", "H" >>
CitePreamble == << "C", "\n", "\n" >>
ConciseClause == << "c", "\n", "\n" >>
RookieClause == << "r", "\n", "\n" >>
QPrefix == << "Q", ":", " " >>
InvalidModePrefix == << "Invalid mode: " >>

\* chr(ord('a') + i), i counted from 1 here
Letters == << "a", "b", "c", "d", "e", "f" >>

\* the f-string of one block, i counted from 1
BlockStr(i, block) ==
    << "[", Letters[i], "]", " " >> \o block.title \o << " ", "-", " " >>
        \o Join(<< "," >>, block.authors) \o << " ", "-", " " >> \o block.date
        \o << "\n" >> \o block.text \o << "\n", "\n" >>

\* the loop without the break of line 84
RECURSIVE ContextLoop_nobreak(_, _, _, _)
ContextLoop_nobreak(context, i, source_prompt, token_count) ==
    IF i > Len(context) THEN source_prompt
    ELSE LET block_str == BlockStr(i, context[i])
             block_tc == TokenCount(block_str)
         IN  IF token_count + block_tc > ContextLimit
             THEN ContextLoop_nobreak(context, i + 1,
                      source_prompt \o cap(block_str, ContextLimit - token_count),
                      token_count)
             ELSE ContextLoop_nobreak(context, i + 1, source_prompt \o block_str,
                                      token_count + block_tc)

\* the loop over the context blocks, from block i with the text and the
\* token count accumulated so far
RECURSIVE ContextLoop(_, _, _, _)
ContextLoop(context, i, source_prompt, token_count) ==
    IF i > Len(context) THEN source_prompt
    ELSE LET block_str == BlockStr(i, context[i])
             block_tc == TokenCount(block_str)
         IN  IF token_count + block_tc > ContextLimit
             THEN source_prompt \o cap(block_str, ContextLimit - token_count)
             ELSE ContextLoop(context, i + 1, source_prompt \o block_str,
                              token_count + block_tc)

\* the content of the system message
SystemContent(hist, context) ==
    LET withBlocks == Strip(ContextLoop(context, 1, SourcePreamble,
                                        TokenCount(SourcePreamble)))
    IN  Strip(IF Len(hist) > 0 THEN withBlocks \o HistoryCaveat ELSE withBlocks)

\* history[:-10:-1]
HistoryWindow(hist) == Take(Reverse(hist), HISTORY_STOP - 1)

\* the message appended for one history message at the given token count
HistoryEntry(message, token_count) ==
    IF message.role = "user"
    THEN [role |-> "user", content |-> QPrefix \o message.content]
    ELSE [role |-> "assistant",
          content |-> Censor(cap(message.content, HistoryLimit - token_count))]

\* the loop without the break of lines 115-116
RECURSIVE HistoryLoop_nobreak(_, _, _)
HistoryLoop_nobreak(window, history_trnc, token_count) ==
    IF window = << >> THEN history_trnc
    ELSE LET entry_ == HistoryEntry(Head(window), token_count)
             tc == token_count + TokenCount(entry_.content)
         IN  HistoryLoop_nobreak(Tail(window), Append(history_trnc, entry_), tc)

\* the loop leaving before it appends the message that crosses the limit
RECURSIVE HistoryLoop_exclusive(_, _, _)
HistoryLoop_exclusive(window, history_trnc, token_count) ==
    IF window = << >> THEN history_trnc
    ELSE LET entry_ == HistoryEntry(Head(window), token_count)
             tc == token_count + TokenCount(entry_.content)
         IN  IF tc > HistoryLimit
             THEN history_trnc
             ELSE HistoryLoop_exclusive(Tail(window), Append(history_trnc, entry_), tc)

\* the loop over history[:-10:-1]: returns history_trnc
RECURSIVE HistoryLoop(_, _, _)
HistoryLoop(window, history_trnc, token_count) ==
    IF window = << >> THEN history_trnc
    ELSE LET entry_ == HistoryEntry(Head(window), token_count)
             tc == token_count + TokenCount(entry_.content)
         IN  IF tc > HistoryLimit
             THEN Append(history_trnc, entry_)
             ELSE HistoryLoop(Tail(window), Append(history_trnc, entry_), tc)

\* the history without the final reversal of line 118
KeptHistory_unreversed(hist) == HistoryLoop(HistoryWindow(hist), << >>, 0)

\* history_trnc[::-1]
KeptHistory(hist) == Reverse(HistoryLoop(HistoryWindow(hist), << >>, 0))

ValidModes == { "default", "concise", "rookie" }

ModeText(m) == << m >>

QuestionPrompt(q, m) ==
    CitePreamble
        \o (IF m = "concise" THEN ConciseClause
            ELSE IF m = "rookie" THEN RookieClause ELSE << >>)
        \o QPrefix \o q

\* construct_prompt without the final elif of line 137
construct_prompt_any_mode(q, m, hist, context) ==
    [ok |-> TRUE,
     prompt |-> << [role |-> "system", content |-> SystemContent(hist, context)] >>
                   \o KeptHistory(hist)
                   \o << [role |-> "user", content |-> QuestionPrompt(q, m)] >>,
     error |-> << >>]

\* construct_prompt with the question appended before the history
construct_prompt_question_first(q, m, hist, context) ==
    IF m \notin ValidModes
    THEN [ok |-> FALSE, prompt |-> << >>, error |-> InvalidModePrefix \o ModeText(m)]
    ELSE [ok |-> TRUE,
          prompt |-> << [role |-> "system", content |-> SystemContent(hist, context)] >>
                        \o << [role |-> "user", content |-> QuestionPrompt(q, m)] >>
                        \o KeptHistory(hist),
          error |-> << >>]

\* construct_prompt: the prompt, or the message of the ValueError it raises
construct_prompt(q, m, hist, context) ==
    IF m \notin ValidModes
    THEN [ok |-> FALSE, prompt |-> << >>, error |-> InvalidModePrefix \o ModeText(m)]
    ELSE [ok |-> TRUE,
          prompt |-> << [role |-> "system", content |-> SystemContent(hist, context)] >>
                        \o KeptHistory(hist)
                        \o << [role |-> "user", content |-> QuestionPrompt(q, m)] >>,
          error |-> << >>]

-----------------------------------------------------------------------------
(* Inputs of the orchestrator *)

Rep(c, n) == [i \in 1..n |-> c]

\* a short query and one of more tokens than NUM_TOKENS
Queries == { << "q" >>, Rep("a", 2 * NUM_TOKENS) }

Modes == ValidModes \cup { "bogus" }

User(content) == [role |-> "user", content |-> content]
Assistant(content) == [role |-> "assistant", content |-> content]

\* a history of two short turns, and one whose second-newest message
\* crosses the history limit
Histories ==
    { << >>,
      << User(<< "b" >>), Assistant(<< "a", "[", "1", "]" >>) >>,
      << User(<< "c" >>), Assistant(Rep("a", 2 * HistoryLimit)),
         User(Rep("a", 2 * HistoryLimit - 4)) >> }

Block(title, body) ==
    [title |-> title, authors |-> << << "u" >>, << "v" >> >>, date |-> << "d" >>,
     url |-> << "w" >>, text |-> body]

\* a block of one author, short enough for three to fit the context limit
ShortBlock(title) ==
    [title |-> title, authors |-> << << "u" >> >>, date |-> << "d" >>,
     url |-> << "w" >>, text |-> << "a", "a" >>]

\* what get_top_k_blocks may return
BlockLists ==
    { << >>,
      << Block(<< "t" >>, << "a", "a" >>) >>,
      << Block(<< "t" >>, << "a", "a" >>), Block(<< "b" >>, Rep("a", 2 * ContextLimit)),
         ShortBlock(<< "c" >>) >>,
      << ShortBlock(<< "t" >>), ShortBlock(<< "b" >>), ShortBlock(<< "c" >>) >> }

\* what multisearch_authored may return
FollowupLists == { << >>, << "f1" >>, << "f1", "f2" >> }

\* the deltas of a completion stream: with a content fragment or without
Deltas ==
    { [has_content |-> FALSE, content |-> << >>],
      [has_content |-> TRUE, content |-> << "a" >>],
      [has_content |-> TRUE, content |-> << "b" >>] }

\* session ids: one already in the ledger, the default "" and a fresh uuid4
PriorSession == "s0"
NewSession == "uuid4"

\* the ids uuid.uuid4() may return
UuidPool == { NewSession, "uuid4'" }

\* uuid4 returning the same id every time
Uuid4_fixed(ledger) == NewSession

\* str(uuid.uuid4()): an id no session has yet
Uuid4(ledger) ==
    IF NewSession \notin DOMAIN ledger THEN NewSession
    ELSE CHOOSE u \in UuidPool : u \notin DOMAIN ledger

\* the budget create_budget is called with
TOTAL_BUDGET == 10

\* the buffer subtracted from the completion ceiling: the 50 of line 182 in
\* the proportion NUM_TOKENS has to the 4095 of line 25
COMPLETION_BUFFER == 1

\* the costs a session already in the ledger may have accrued
PriorCosts == { 0, TOTAL_BUDGET - 1, TOTAL_BUDGET, TOTAL_BUDGET + 1 }

\* the amounts one update_cost call may add
CostSteps == { 0, 1 }

-----------------------------------------------------------------------------
(* The session ledger budget_manager *)

create_budget(ledger, total_budget, user) ==
    [u \in DOMAIN ledger \cup { user } |->
        IF u = user THEN [total_budget |-> total_budget, current_cost |-> 0]
        ELSE ledger[u]]

get_current_cost(ledger, user) == ledger[user].current_cost

get_total_budget(ledger, user) == ledger[user].total_budget

update_cost(ledger, user, cost) ==
    [ledger EXCEPT ![user].current_cost = @ + cost]

-----------------------------------------------------------------------------
(* Events and failures *)

Event(state, phase, has_citations, citations, content, error, followups) ==
    [state |-> state, phase |-> phase, has_citations |-> has_citations,
     citations |-> citations, content |-> content, error |-> error,
     followups |-> followups]

Loading(phase) == Event("loading", phase, FALSE, << >>, << >>, << >>, << >>)

LoadingCitations(blocks) ==
    Event("loading", "semantic", TRUE,
          [i \in 1..Len(blocks) |->
              [title |-> blocks[i].title, author |-> blocks[i].authors,
               date |-> blocks[i].date, url |-> blocks[i].url]],
          << >>, << >>, << >>)

Streaming(content) == Event("streaming", "", FALSE, << >>, content, << >>, << >>)

Done(followups) == Event("done", "", FALSE, << >>, << >>, << >>, followups)

Error(message) == Event("error", "", FALSE, << >>, << >>, message, << >>)

ModerationMessage ==
    << "This conversation was rejected by OpenAI's moderation filter. Sorry." >>
BudgetMessage == << "Exceeded the maximum budget for this session" >>
RetrievalFailure == << "get_top_k_blocks failed" >>
ModerationFailure == << "openai.Moderation.create failed" >>
LedgerFailure == << "budget_manager failed" >>
CompletionFailure == << "litellm.completion failed" >>
LogFailure == << "log failed" >>
FollowupFailure == << "multisearch_authored failed" >>

Call(fn, input) == [fn |-> fn, input |-> input]

\* an except clause inside the loop over the stream: the loop goes on
Except_resume(message) ==
    /\ events' = Append(events, Error(message))
    /\ raised' = Append(raised, message)
    /\ pc' = IF pc = "l200" THEN "l200" ELSE "finished"

\* an except clause that reports the budget failure and lets the
\* generation go on
Except_budget_goes_on(message) ==
    /\ events' = Append(events, Error(message))
    /\ raised' = Append(raised, message)
    /\ pc' = IF message = BudgetMessage THEN "l200" ELSE "finished"

\* an except clause that goes back to the retrieval after the first failure
Except_retry(message) ==
    /\ events' = Append(events, Error(message))
    /\ raised' = Append(raised, message)
    /\ pc' = IF raised = << >> THEN "l154" ELSE "finished"

\* the except clause: the exception becomes one error event and the
\* generator ends
Except(message) ==
    /\ events' = Append(events, Error(message))
    /\ raised' = Append(raised, message)
    /\ pc' = "finished"

-----------------------------------------------------------------------------
(* The orchestrator talk_to_robot_internal and its callers *)

\* '\n\n'.join([message["content"] for message in prompt])
PromptString(p) == Join(<< "\n", "\n" >>, [i \in 1..Len(p) |-> p[i].content])

RoleText(role) ==
    IF role = "system" THEN << "s", "y", "s", "t", "e", "m" >>
    ELSE IF role = "user" THEN << "u", "s", "e", "r" >>
    ELSE << "a", "s", "s", "i", "s", "t", "a", "n", "t" >>

\* sum over the prompt of len(encode(content) + encode(role))
RECURSIVE PromptTokens(_)
PromptTokens(p) ==
    IF p = << >> THEN 0
    ELSE TokenCount(Head(p).content) + TokenCount(RoleText(Head(p).role))
            + PromptTokens(Tail(p))

MaxTokensCompletion(p) == NUM_TOKENS - PromptTokens(p) - COMPLETION_BUFFER

\* the test of line 168 looking at the prompt's result only
Flagged_prompt_only(res) == res[Len(res)].flagged

\* any(map(lambda x: x["flagged"], mod_res["results"]))
Flagged(res) == \E i \in 1..Len(res) : res[i].flagged

\* the check before the completion request: TRUE when the chat raises
BudgetCheckRaises(ledger, user) ==
    get_current_cost(ledger, user) <= get_total_budget(ledger, user)

\* json.dumps(res) before anything is returned
NoResult == << >>

\* an invocation that has not been started
IdleContext ==
    [pc |-> "idle", entry |-> None, query |-> << >>, mode |-> None,
     history |-> << >>, session_id |-> None, top_k_blocks |-> << >>,
     prompt |-> << >>, mod_res |-> << >>, max_tokens_completion |-> 0,
     response |-> << >>, chunks |-> << >>, events |-> << >>, calls |-> << >>,
     raised |-> << >>, result |-> NoResult]

Idle ==
    /\ pc = "idle"
    /\ entry = None
    /\ query = << >>
    /\ mode = None
    /\ history = << >>
    /\ session_id = None
    /\ top_k_blocks = << >>
    /\ prompt = << >>
    /\ mod_res = << >>
    /\ max_tokens_completion = 0
    /\ response = << >>
    /\ chunks = << >>
    /\ events = << >>
    /\ calls = << >>
    /\ raised = << >>
    /\ result = NoResult
    /\ parked = IdleContext

CapIdle == text = << >> /\ max_tokens = 0 /\ capped = None

\* the module is loaded; the ledger may already hold a session
Init ==
    /\ Idle
    /\ CapIdle
    /\ budget_manager \in
          { << >> } \cup
          { update_cost(create_budget(<< >>, TOTAL_BUDGET, PriorSession),
                        PriorSession, c) : c \in PriorCosts }

Begin(fn, q, m, hist, sid) ==
    /\ pc = "idle"
    /\ entry' = fn
    /\ query' = q
    /\ mode' = m
    /\ history' = hist
    /\ session_id' = sid
    /\ pc' = "l153"
    /\ UNCHANGED << top_k_blocks, prompt, mod_res, max_tokens_completion,
                    response, chunks, events, calls, raised >>

\* talk_to_robot: a fresh session with the fixed budget, then the generator
talk_to_robot_call(q, m, hist) ==
    /\ Begin("talk_to_robot", q, m, hist, Uuid4(budget_manager))
    /\ budget_manager' = create_budget(budget_manager, TOTAL_BUDGET,
                                       Uuid4(budget_manager))
    /\ UNCHANGED restVars

talk_to_robot ==
    \E q \in Queries, m \in Modes, hist \in Histories : talk_to_robot_call(q, m, hist)

\* talk_to_robot_simple: mode "default" and no history
talk_to_robot_simple_call(q) ==
    /\ Begin("talk_to_robot_simple", q, "default", << >>, Uuid4(budget_manager))
    /\ budget_manager' = create_budget(budget_manager, TOTAL_BUDGET,
                                       Uuid4(budget_manager))
    /\ UNCHANGED restVars

talk_to_robot_simple == \E q \in Queries : talk_to_robot_simple_call(q)

\* a direct call of talk_to_robot_internal with a session id of the caller
talk_to_robot_internal_call(q, m, hist, sid) ==
    /\ Begin("talk_to_robot_internal", q, m, hist, sid)
    /\ UNCHANGED budget_manager
    /\ UNCHANGED restVars

talk_to_robot_internal ==
    \E q \in Queries, m \in Modes, hist \in Histories, sid \in { "", PriorSession } :
        talk_to_robot_internal_call(q, m, hist, sid)

\* line 153
YieldSemantic ==
    /\ pc = "l153"
    /\ events' = Append(events, Loading("semantic"))
    /\ pc' = "l154"
    /\ UNCHANGED << entry, query, mode, history, session_id, budget_manager,
                    top_k_blocks, prompt, mod_res, max_tokens_completion,
                    response, chunks, calls, raised, restVars >>

\* lines 154-156
GetTopKBlocks ==
    /\ pc = "l154"
    /\ calls' = Append(calls, Call("get_top_k_blocks", << query >>))
    /\ \/ \E blocks \in BlockLists :
            /\ top_k_blocks' = blocks
            /\ events' = Append(events, LoadingCitations(blocks))
            /\ pc' = "l159"
            /\ UNCHANGED raised
       \/ /\ Except(RetrievalFailure)
          /\ UNCHANGED top_k_blocks
    /\ UNCHANGED << entry, query, mode, history, session_id, budget_manager,
                    prompt, mod_res, max_tokens_completion, response, chunks,
                    restVars >>

\* line 159
YieldPrompt ==
    /\ pc = "l159"
    /\ events' = Append(events, Loading("prompt"))
    /\ pc' = "l160"
    /\ UNCHANGED << entry, query, mode, history, session_id, budget_manager,
                    top_k_blocks, prompt, mod_res, max_tokens_completion,
                    response, chunks, calls, raised, restVars >>

\* line 160
ConstructPrompt ==
    /\ pc = "l160"
    /\ LET r == construct_prompt(query, mode, history, top_k_blocks)
       IN  \/ /\ r.ok
              /\ prompt' = r.prompt
              /\ pc' = "l165"
              /\ UNCHANGED << events, raised >>
           \/ /\ ~r.ok
              /\ Except(r.error)
              /\ UNCHANGED prompt
    /\ UNCHANGED << entry, query, mode, history, session_id, budget_manager,
                    top_k_blocks, mod_res, max_tokens_completion, response,
                    chunks, calls, restVars >>

\* lines 165-185
Moderate ==
    /\ pc = "l165"
    /\ calls' = Append(calls, Call("Moderation.create",
                                   << query, PromptString(prompt) >>))
    /\ \/ \E res \in [1..2 -> [flagged : BOOLEAN]] :
            /\ mod_res' = res
            /\ IF Flagged(res)
               THEN /\ Except(ModerationMessage)
                    /\ UNCHANGED max_tokens_completion
               ELSE /\ max_tokens_completion' = MaxTokensCompletion(prompt)
                    /\ events' = Append(events, Loading("llm"))
                    /\ pc' = "l190"
                    /\ UNCHANGED raised
       \/ /\ Except(ModerationFailure)
          /\ UNCHANGED << mod_res, max_tokens_completion >>
    /\ UNCHANGED << entry, query, mode, history, session_id, budget_manager,
                    top_k_blocks, prompt, response, chunks, restVars >>

\* lines 186-199: the budget check and the completion request
RequestCompletion ==
    /\ pc = "l190"
    /\ IF session_id \notin DOMAIN budget_manager
       THEN /\ Except(LedgerFailure)
            /\ UNCHANGED calls
       ELSE IF BudgetCheckRaises(budget_manager, session_id)
       THEN /\ Except(BudgetMessage)
            /\ UNCHANGED calls
       ELSE /\ calls' = Append(calls, Call("litellm.completion", << >>))
            /\ \/ /\ pc' = "l200"
                  /\ UNCHANGED << events, raised >>
               \/ Except(CompletionFailure)
    /\ UNCHANGED << entry, query, mode, history, session_id, budget_manager,
                    top_k_blocks, prompt, mod_res, max_tokens_completion,
                    response, chunks, restVars >>

\* the loop assigning the fragment to the response instead of adding it
NextChunk_assign ==
    /\ pc = "l200"
    /\ Len(chunks) < MaxChunks
    /\ calls' = Append(calls, Call("update_cost", << response >>))
    /\ \E res \in Deltas :
        /\ chunks' = Append(chunks, res)
        /\ \/ \E cost \in CostSteps :
                /\ budget_manager' = update_cost(budget_manager, session_id, cost)
                /\ IF res.has_content
                   THEN /\ response' = res.content
                        /\ events' = Append(events, Streaming(res.content))
                   ELSE UNCHANGED << response, events >>
                /\ UNCHANGED << pc, raised >>
           \/ /\ Except(LedgerFailure)
              /\ UNCHANGED << budget_manager, response >>
    /\ UNCHANGED << entry, query, mode, history, session_id, top_k_blocks,
                    prompt, mod_res, max_tokens_completion, restVars >>

\* lines 193-204: one turn of the loop over the stream
NextChunk ==
    /\ pc = "l200"
    /\ Len(chunks) < MaxChunks
    /\ calls' = Append(calls, Call("update_cost", << response >>))
    /\ \E res \in Deltas :
        /\ chunks' = Append(chunks, res)
        /\ \/ \E cost \in CostSteps :
                /\ budget_manager' = update_cost(budget_manager, session_id, cost)
                /\ IF res.has_content
                   THEN /\ response' = response \o res.content
                        /\ events' = Append(events, Streaming(res.content))
                   ELSE UNCHANGED << response, events >>
                /\ UNCHANGED << pc, raised >>
           \/ /\ Except(LedgerFailure)
              /\ UNCHANGED << budget_manager, response >>
    /\ UNCHANGED << entry, query, mode, history, session_id, top_k_blocks,
                    prompt, mod_res, max_tokens_completion, restVars >>

\* the completion service fails while the stream is read
StreamFails ==
    /\ pc = "l200"
    /\ Except(CompletionFailure)
    /\ UNCHANGED << entry, query, mode, history, session_id, budget_manager,
                    top_k_blocks, prompt, mod_res, max_tokens_completion,
                    response, chunks, calls, restVars >>

\* lines 207-230: the stream has ended
Finish ==
    /\ pc = "l200"
    /\ \/ /\ Except(LogFailure)
          /\ UNCHANGED calls
       \/ /\ calls' = Append(calls, Call("multisearch_authored",
                                         << query, response >>))
          /\ \/ \E followups \in FollowupLists :
                  /\ events' = Append(events, Done(followups))
                  /\ pc' = "finished"
                  /\ UNCHANGED raised
             \/ Except(FollowupFailure)
    /\ UNCHANGED << entry, query, mode, history, session_id, budget_manager,
                    top_k_blocks, prompt, mod_res, max_tokens_completion,
                    response, chunks, restVars >>

\* citations[chr(ord('a') + i)] = c for i, c in enumerate(block['citations'])
Lettered(citations) ==
    [i \in 1..Len(citations) |-> << Letters[i], citations[i] >>]

\* one pass of the loop of talk_to_robot_simple over a block
Consume(res, block) ==
    IF block.state = "loading" /\ block.phase = "semantic" /\ block.has_citations
    THEN [res EXCEPT !.has_citations = TRUE,
                     !.citations = Lettered(block.citations)]
    ELSE IF block.state = "streaming"
    THEN [res EXCEPT !.response = @ \o block.content]
    ELSE IF block.state = "error"
    THEN [res EXCEPT !.response = block.error]
    ELSE res

RECURSIVE ConsumeAll(_, _)
\* the loop of talk_to_robot_simple over the blocks of the generator
ConsumeAll(res, blocks) ==
    IF blocks = << >> THEN res
    ELSE ConsumeAll(Consume(res, Head(blocks)), Tail(blocks))

\* json.dumps(res): the keys with their values, in insertion order
JsonDumps(res) ==
    IF res.has_citations
    THEN << << "response", res.response >>, << "citations", res.citations >> >>
    ELSE << << "response", res.response >> >>

\* talk_to_robot_simple returns once the generator is exhausted
ReturnSimple ==
    /\ pc = "finished"
    /\ entry = "talk_to_robot_simple"
    /\ result = NoResult
    /\ result' = JsonDumps(ConsumeAll([response |-> << >>, has_citations |-> FALSE,
                                         citations |-> << >>], events))
    /\ UNCHANGED << pc, entry, query, mode, history, session_id, budget_manager,
                    top_k_blocks, prompt, mod_res, max_tokens_completion,
                    response, chunks, events, calls, raised, parked, capVars >>

Next ==
    \/ talk_to_robot
    \/ talk_to_robot_simple
    \/ talk_to_robot_internal
    \/ YieldSemantic
    \/ GetTopKBlocks
    \/ YieldPrompt
    \/ ConstructPrompt
    \/ Moderate
    \/ RequestCompletion
    \/ NextChunk
    \/ StreamFails
    \/ Finish
    \/ ReturnSimple

Spec == Init /\ [][Next]_vars

-----------------------------------------------------------------------------
(* Two invocations interleaved: one runs while the other is suspended at a *)
(* yield or at a call of a collaborator                                    *)

\* the invocation that is running
Context ==
    [pc |-> pc, entry |-> entry, query |-> query, mode |-> mode,
     history |-> history, session_id |-> session_id,
     top_k_blocks |-> top_k_blocks, prompt |-> prompt, mod_res |-> mod_res,
     max_tokens_completion |-> max_tokens_completion, response |-> response,
     chunks |-> chunks, events |-> events, calls |-> calls, raised |-> raised,
     result |-> result]

\* a generator that has ended is not resumed; talk_to_robot_simple still
\* has its return to make
Resumable(c) ==
    \/ c.pc # "finished"
    \/ c.entry = "talk_to_robot_simple" /\ c.result = NoResult

\* the running invocation is suspended and the other one goes on
Switch ==
    /\ Resumable(parked)
    /\ parked' = Context
    /\ pc' = parked.pc
    /\ entry' = parked.entry
    /\ query' = parked.query
    /\ mode' = parked.mode
    /\ history' = parked.history
    /\ session_id' = parked.session_id
    /\ top_k_blocks' = parked.top_k_blocks
    /\ prompt' = parked.prompt
    /\ mod_res' = parked.mod_res
    /\ max_tokens_completion' = parked.max_tokens_completion
    /\ response' = parked.response
    /\ chunks' = parked.chunks
    /\ events' = parked.events
    /\ calls' = parked.calls
    /\ raised' = parked.raised
    /\ result' = parked.result
    /\ UNCHANGED << budget_manager, capVars >>

ConcQuery == << "q" >>

\* one session is in the ledger already, spent beyond its budget
InitConc ==
    /\ Idle
    /\ CapIdle
    /\ budget_manager =
          update_cost(create_budget(<< >>, TOTAL_BUDGET, PriorSession),
                      PriorSession, TOTAL_BUDGET + 1)

StartRobot == talk_to_robot_call(ConcQuery, "default", << >>)

\* the pairs of invocations: two started by adapters, or talk_to_robot
\* beside a direct call
StartSimple ==
    /\ parked.entry # "talk_to_robot_internal"
    /\ talk_to_robot_simple_call(ConcQuery)

\* a direct call on the session the ledger holds already, which no other
\* invocation is running on
StartInternal ==
    /\ parked.session_id # PriorSession
    /\ parked.entry # "talk_to_robot_simple"
    /\ talk_to_robot_internal_call(ConcQuery, "default", << >>, PriorSession)

NextConc ==
    \/ StartRobot
    \/ StartSimple
    \/ StartInternal
    \/ YieldSemantic
    \/ GetTopKBlocks
    \/ YieldPrompt
    \/ ConstructPrompt
    \/ Moderate
    \/ RequestCompletion
    \/ NextChunk
    \/ StreamFails
    \/ Finish
    \/ ReturnSimple
    \/ Switch

SpecConc == InitConc /\ [][NextConc]_vars

-----------------------------------------------------------------------------
(* The allocator on its own: every text over a small alphabet, every      *)
(* ceiling from -1 up                                                      *)

CapAlphabet == { "a", " ", "." }

InitCap ==
    /\ Idle
    /\ budget_manager = << >>
    /\ text \in SeqsUpTo(CapAlphabet, MaxTextLen)
    /\ max_tokens \in -1..MaxCeiling
    /\ capped = None

CallCap ==
    /\ capped = None
    /\ capped' = cap(text, max_tokens)
    /\ UNCHANGED << text, max_tokens, orchVars >>

SpecCap == InitCap /\ [][CallCap]_vars

-----------------------------------------------------------------------------
(* The assembler on its own *)

\* contents of one, four, HistoryLimit - 2 and HistoryLimit + 1 tokens
PromptContents ==
    { << "b" >>, << "a", "[", "1", "]" >>,
      Rep("a", 2 * HistoryLimit - 4), Rep("a", 2 * HistoryLimit + 2) }

PromptMessages ==
    { User(c) : c \in PromptContents } \cup { Assistant(c) : c \in PromptContents }

\* a history longer than the window of history[:-10:-1], of distinct
\* one-token messages
LongHistory ==
    [i \in 1..(HISTORY_STOP + 1) |->
        IF i % 2 = 1 THEN Assistant(<< ToString(i) >>) ELSE Assistant(<< >>)]

PromptHistories ==
    SeqsUpTo(PromptMessages, MaxHistory)
        \cup { LongHistory,
               << User(<< "c" >>), Assistant(Rep("a", HistoryLimit)),
                  User(Rep("a", HistoryLimit)), User(<< "b" >>) >> }

\* the queries of the calls of construct_prompt on its own
PromptQueries == { << "q" >>, << "a", "a", "a" >> }

\* the arguments of one call construct_prompt(query, mode, history, context)
InitPrompt ==
    /\ pc = "call"
    /\ query \in PromptQueries
    /\ mode \in Modes
    /\ history \in PromptHistories
    /\ top_k_blocks \in BlockLists
    /\ entry = "construct_prompt"
    /\ session_id = None
    /\ prompt = << >>
    /\ mod_res = << >>
    /\ max_tokens_completion = 0
    /\ response = << >>
    /\ chunks = << >>
    /\ events = << >>
    /\ calls = << >>
    /\ raised = << >>
    /\ result = NoResult
    /\ parked = IdleContext
    /\ CapIdle
    /\ budget_manager = << >>

CallConstructPrompt ==
    /\ pc = "call"
    /\ LET r == construct_prompt(query, mode, history, top_k_blocks)
       IN  IF r.ok
           THEN /\ prompt' = r.prompt
                /\ pc' = "returned"
                /\ UNCHANGED raised
           ELSE /\ raised' = Append(raised, r.error)
                /\ pc' = "raised"
                /\ UNCHANGED prompt
    /\ UNCHANGED << entry, query, mode, history, session_id, budget_manager,
                    top_k_blocks, mod_res, max_tokens_completion, response,
                    chunks, events, calls, restVars >>

SpecPrompt == InitPrompt /\ [][CallConstructPrompt]_vars

-----------------------------------------------------------------------------
(* Properties of the allocator *)

\* C8 as stated: for every text T and ceiling N >= 0 the token count of
\* cap(T, N) is at most N, and cap(T, N) = T when T has at most N tokens.
C8_CapWithinCeiling ==
    (capped # None /\ max_tokens >= 0) =>
        /\ TokenCount(capped) <= max_tokens
        /\ (TokenCount(text) <= max_tokens => capped = text)

\* C8 amended: for a ceiling N >= 1, cap(T, N) = T when T has at most N
\* tokens, and otherwise it is the first N tokens of T decoded, followed by
\* the marker " ..."; for N <= 0 it is "..." whatever T is.
C8_CapTruncates ==
    capped # None =>
        /\ (max_tokens >= 1 /\ TokenCount(text) <= max_tokens) => capped = text
        /\ (max_tokens >= 1 /\ TokenCount(text) > max_tokens) =>
              /\ IsSuffix(Marker, capped)
              /\ Take(capped, Len(capped) - Len(Marker))
                    = Decode(Take(Encode(text), max_tokens))
        /\ max_tokens <= 0 => capped = Ellipsis

\* cap has truncated a text whose tokens are not all single characters
C8_Truncated ==
    /\ capped # None
    /\ max_tokens >= 1
    /\ TokenCount(text) > max_tokens
    /\ Len(text) > TokenCount(text)
    /\ capped # text

-----------------------------------------------------------------------------
(* Properties of the assembler *)

\* the history messages of the assembled prompt: all but the first and last
PromptHistory == SubSeq(prompt, 2, Len(prompt) - 1)

RECURSIVE SumTokens(_)
SumTokens(messages) ==
    IF messages = << >> THEN 0
    ELSE TokenCount(Head(messages).content) + SumTokens(Tail(messages))

\* C9 as stated: the history messages of every assembled prompt cost at
\* most NUM_TOKENS * HISTORY_FRACTION tokens in total.
C9_HistoryWithinFraction ==
    pc = "returned" => 4 * SumTokens(PromptHistory) <= NUM_TOKENS

\* C9 amended: the history messages of every assembled prompt other than
\* the oldest one kept cost at most int(NUM_TOKENS * HISTORY_FRACTION)
\* tokens in total; the oldest one kept may take the total over it.
C9_HistoryButOldestWithinFraction ==
    (pc = "returned" /\ PromptHistory # << >>) =>
        SumTokens(Tail(PromptHistory)) <= HistoryLimit

\* a prompt with several history messages whose total is over the limit
C9_CrossingKept ==
    /\ pc = "returned"
    /\ Len(PromptHistory) >= 2
    /\ SumTokens(PromptHistory) > HistoryLimit
    /\ Len(PromptHistory) < Len(history)

\* the message the assembler makes of a history message at some point of
\* the walk
Corresponds(kept, message) ==
    /\ kept.role = message.role
    /\ IF message.role = "user"
       THEN kept.content = QPrefix \o message.content
       ELSE \E room \in 0..HistoryLimit :
               kept.content = Censor(cap(message.content, room))

\* C10: the history messages of the assembled prompt are, in order, the
\* messages made of a contiguous suffix of the caller's history.
C10_KeptIsSuffix ==
    pc = "returned" =>
        /\ Len(PromptHistory) <= Len(history)
        /\ \A i \in 1..Len(PromptHistory) :
              Corresponds(PromptHistory[i],
                          history[Len(history) - Len(PromptHistory) + i])

\* a prompt that keeps several distinct history messages and drops others
C10_SeveralKeptSomeDropped ==
    /\ pc = "returned"
    /\ Len(PromptHistory) >= 2
    /\ Len(PromptHistory) < Len(history)
    /\ PromptHistory[1] # PromptHistory[2]
    /\ history[Len(history)] # history[Len(history) - 1]

-----------------------------------------------------------------------------
(* Properties of the orchestrator *)

Range(f) == { f[i] : i \in DOMAIN f }

Last(seq) == seq[Len(seq)]

Terminal(e) == e.state \in { "done", "error" }

Indices(fn) == { i \in 1..Len(calls) : calls[i].fn = fn }

EventsOf(state) == { i \in 1..Len(events) : events[i].state = state }

\* C1: the emitted sequence has one terminal event, it is the last event,
\* every loading event precedes it, and every streaming event comes after
\* the last loading event and before the terminal event.
C1_EventOrder ==
    /\ \A i \in 1..Len(events) : Terminal(events[i]) => i = Len(events)
    /\ pc = "finished" => (events # << >> /\ Terminal(Last(events)))
    /\ pc # "finished" => \A i \in 1..Len(events) : ~Terminal(events[i])
    /\ \A i \in EventsOf("loading"), j \in EventsOf("streaming") : i < j

\* an invocation that streamed two fragments and ended
C1_StreamedToTheEnd ==
    /\ pc = "finished"
    /\ Cardinality(EventsOf("streaming")) >= 2
    /\ Cardinality(EventsOf("loading")) >= 4

\* C2 as stated: at the generation stage the chat halts with the
\* budget-exceeded failure exactly when the session's cost is at least its
\* budget, and requests completion only while cost < budget.
C2_BudgetGate ==
    [][ (pc = "l190" /\ session_id \in DOMAIN budget_manager) =>
          LET exceeded == get_current_cost(budget_manager, session_id)
                              >= get_total_budget(budget_manager, session_id)
          IN  /\ exceeded <=> (raised' = Append(raised, BudgetMessage))
              /\ (calls' # calls) => ~exceeded ]_vars

\* C3: completion is requested only after one moderation call over the
\* query and the concatenated prompt that flagged neither; when either is
\* flagged completion is never requested.
C3_ModerationBeforeCompletion ==
    /\ Cardinality(Indices("Moderation.create")) <= 1
    /\ Indices("litellm.completion") # {} =>
          /\ Cardinality(Indices("Moderation.create")) = 1
          /\ \A i \in Indices("Moderation.create"), j \in Indices("litellm.completion") :
                /\ i < j
                /\ calls[i].input = << query, PromptString(prompt) >>
          /\ Len(mod_res) = 2
          /\ \A k \in 1..Len(mod_res) : ~mod_res[k].flagged
    /\ (\E k \in 1..Len(mod_res) : mod_res[k].flagged) =>
          Indices("litellm.completion") = {}

\* completion has been requested for a prompt with history
C3_CompletionRequested ==
    /\ Indices("litellm.completion") # {}
    /\ Len(prompt) > 2

Shape(e) == << e.state, e.phase >>

C5_InvalidModeBeforeAnyCall ==
    (entry # None /\ mode \notin ValidModes) =>
        /\ calls = << >>
        /\ pc = "finished" => raised = << InvalidModePrefix \o ModeText(mode) >>

\* C5 amended: a mode outside {default, concise, rookie} yields the
\* invalid-mode failure once retrieval has succeeded: after the retrieval
\* call and before any moderation, completion or followup call; when
\* retrieval fails the invocation ends with the retrieval failure instead.
C5_InvalidModeAfterRetrieval ==
    (entry # None /\ mode \notin ValidModes) =>
        /\ \A i \in 1..Len(calls) : calls[i].fn = "get_top_k_blocks"
        /\ Len(calls) <= 1
        /\ pc \in { "l153", "l154", "l159", "l160", "finished" }
        /\ pc = "finished" =>
              /\ calls # << >>
              /\ IF \E i \in 1..Len(events) : events[i].has_citations
                 THEN /\ raised = << InvalidModePrefix \o ModeText(mode) >>
                      /\ Last(events) = Error(InvalidModePrefix \o ModeText(mode))
                 ELSE raised = << RetrievalFailure >>

\* an invalid mode has been rejected after retrieval returned blocks
C5_InvalidModeRejected ==
    /\ pc = "finished"
    /\ mode \notin ValidModes
    /\ top_k_blocks # << >>
    /\ raised = << InvalidModePrefix \o ModeText(mode) >>

\* C6: when the followup lookup fails after the stream has finished, the
\* invocation ends with a done event carrying no followups.
C6_FollowupFailureIsDone ==
    (pc = "finished" /\ FollowupFailure \in Range(raised)) =>
        Last(events) = Done(<< >>)

\* C7: every failure raised at any stage surfaces as exactly one error
\* event carrying the failure's message, and no event follows it.
C7_OneErrorEvent ==
    /\ Cardinality(EventsOf("error")) = Len(raised)
    /\ raised # << >> =>
          /\ Len(raised) = 1
          /\ pc = "finished"
          /\ Last(events) = Error(raised[1])
          /\ EventsOf("error") = { Len(events) }
          /\ EventsOf("done") = {}

\* the completion service failed after a fragment had been streamed
C7_FailedMidStream ==
    /\ raised = << CompletionFailure >>
    /\ EventsOf("streaming") # {}

-----------------------------------------------------------------------------
(* Further properties of the assembler *)

\* the places where the label [letter] starts in a text
LabelAt(content, letter) ==
    { i \in 1..Len(content) :
        IsPrefix(<< "[", letter, "]" >>, SubSeq(content, i, Len(content))) }

RECURSIVE BlocksTokens(_, _)
BlocksTokens(context, i) ==
    IF i > Len(context) THEN 0
    ELSE TokenCount(BlockStr(i, context[i])) + BlocksTokens(context, i + 1)

\* every block fits the context limit whole
AllBlocksFit(context) ==
    TokenCount(SourcePreamble) + BlocksTokens(context, 1) <= ContextLimit

\* C11: for a valid mode the prompt is one system message, the kept
\* history, one final user message with the question; with no history it
\* has two messages; blocks that all fit are labelled [a], [b], [c], ... in
\* input order in the system message.
C11_PromptShape ==
    /\ (pc # "call" /\ entry = "construct_prompt") =>
          (pc = "returned" <=> mode \in ValidModes)
    /\ pc = "returned" =>
          /\ Len(prompt) >= 2
          /\ prompt[1].role = "system"
          /\ \A i \in 2..Len(prompt) : prompt[i].role \in { "user", "assistant" }
          /\ Last(prompt).role = "user"
          /\ IsPrefix(CitePreamble, Last(prompt).content)
          /\ IsSuffix(QPrefix \o query, Last(prompt).content)
          /\ \A i \in 2..(Len(prompt) - 1) :
                ~IsPrefix(CitePreamble, prompt[i].content)
          /\ Len(prompt) <= 2 + Len(history)
          /\ history = << >> => Len(prompt) = 2
          /\ AllBlocksFit(top_k_blocks) =>
                /\ \A i \in 1..Len(top_k_blocks) :
                      Cardinality(LabelAt(prompt[1].content, Letters[i])) = 1
                /\ \A i, j \in 1..Len(top_k_blocks) :
                      i < j => \A x \in LabelAt(prompt[1].content, Letters[i]),
                                  y \in LabelAt(prompt[1].content, Letters[j]) : x < y

\* three blocks that fit, no history, mode default
C11_ThreeBlocksNoHistory ==
    /\ pc = "returned"
    /\ mode = "default"
    /\ history = << >>
    /\ Len(top_k_blocks) = 3
    /\ AllBlocksFit(top_k_blocks)
    /\ Len(prompt) = 2
    /\ LabelAt(prompt[1].content, "c") # {}

\* the tokens of each block string, counted on its own
BlockTokens(context) ==
    [i \in 1..Len(context) |-> TokenCount(BlockStr(i, context[i]))]

RECURSIVE SumUpTo(_, _)
SumUpTo(counts, n) == IF n = 0 THEN 0 ELSE counts[n] + SumUpTo(counts, n - 1)

\* the tokens of the preamble and of the first n blocks, for every n
TokensUpTo(context) ==
    LET counts == BlockTokens(context)
        preamble == TokenCount(SourcePreamble)
    IN  [n \in 0..Len(context) |-> preamble + SumUpTo(counts, n)]

\* the blocks that would exceed the context limit if added whole
Crossing(context) ==
    LET used == TokensUpTo(context)
    IN  { i \in 1..Len(context) : used[i] > ContextLimit }

RECURSIVE WholeBlocks(_, _)
\* the first n blocks, whole and in input order
WholeBlocks(context, n) ==
    IF n = 0 THEN << >>
    ELSE WholeBlocks(context, n - 1) \o BlockStr(n, context[n])

\* the system message without the caveat about the history
ReferencePart(content, hist) ==
    IF hist # << >> /\ IsSuffix(HistoryCaveat, content)
    THEN SubSeq(content, 1, Len(content) - Len(HistoryCaveat))
    ELSE content

\* C15: the blocks rendered in the system message are a prefix of the
\* input blocks in input order; every block before the first one that would
\* exceed the context limit is rendered whole, that block is rendered as the
\* allocator cuts it to the remaining tokens and it is the last one
\* rendered, and no later block is rendered at all.
C15_BlocksPrefix ==
    pc = "returned" =>
        LET context == top_k_blocks
            rendered == ReferencePart(prompt[1].content, history)
            used == TokensUpTo(context)
            crossing == { i \in 1..Len(context) : used[i] > ContextLimit }
        IN  IF crossing = {}
            THEN rendered = Strip(SourcePreamble \o WholeBlocks(context, Len(context)))
            ELSE LET k == CHOOSE i \in crossing : \A j \in crossing : i <= j
                 IN  /\ rendered =
                          Strip(SourcePreamble \o WholeBlocks(context, k - 1)
                                  \o cap(BlockStr(k, context[k]),
                                         ContextLimit - used[k - 1]))
                     /\ \A j \in (k + 1)..Len(context) :
                          LabelAt(prompt[1].content, Letters[j]) = {}

\* the second of three blocks is cut to the tokens that remain, part of it
\* is rendered and the third block is dropped
C15_SecondCutThirdDropped ==
    /\ pc = "returned"
    /\ Len(top_k_blocks) = 3
    /\ Crossing(top_k_blocks) = { 2, 3 }
    /\ TokensUpTo(top_k_blocks)[1] < ContextLimit
    /\ LabelAt(prompt[1].content, "a") # {}
    /\ LabelAt(prompt[1].content, "b") # {}
    /\ LabelAt(prompt[1].content, "c") = {}
    /\ IsSuffix(Marker, ReferencePart(prompt[1].content, history))

\* C16: the prompt holds a version of the last 10 history messages: never
\* more than 10, and exactly the 10 most recent ones when the history has 10
\* or more and the history token limit is not hit.
C16_LastTenKept ==
    pc = "returned" =>
        /\ Len(PromptHistory) <= HISTORY_STOP
        /\ (Len(history) >= HISTORY_STOP
                /\ SumTokens(PromptHistory) <= HistoryLimit)
              => Len(PromptHistory) = HISTORY_STOP

\* the number of history messages the backward walk goes over
WindowLen == Min(Len(history), HISTORY_STOP - 1)

\* C17: the backward walk stops right after appending the first message
\* that takes the running token count over NUM_TOKENS * HISTORY_FRACTION:
\* no message newer than the oldest one kept has crossed the limit, the
\* walk ends early only with the count over the limit, the message that
\* crossed it being the oldest one kept.
C17_FirstCrossingKept ==
    pc = "returned" =>
        /\ Len(PromptHistory) <= WindowLen
        /\ PromptHistory # << >> =>
              SumTokens(Tail(PromptHistory)) <= HistoryLimit
        /\ Len(PromptHistory) < WindowLen =>
              /\ PromptHistory # << >>
              /\ SumTokens(PromptHistory) > HistoryLimit
              /\ Corresponds(PromptHistory[1],
                             history[Len(history) - Len(PromptHistory) + 1])

\* the walk went over two messages below the limit, the third one crossed
\* it and is kept, the fourth one is not
C17_ThirdCrossed ==
    /\ pc = "returned"
    /\ Len(history) = 4
    /\ Len(PromptHistory) = 3
    /\ SumTokens(Tail(PromptHistory)) <= HistoryLimit
    /\ SumTokens(PromptHistory) > HistoryLimit

-----------------------------------------------------------------------------
(* Further properties of the orchestrator *)

\* C12: once the budget-exceeded failure has been raised in an invocation,
\* no update_cost call is made in it.
C12_NoCostAfterExhaustion ==
    BudgetMessage \in Range(raised) =>
        /\ pc = "finished"
        /\ Last(events) = Error(BudgetMessage)
        /\ Indices("update_cost") = {}
        /\ Indices("litellm.completion") = {}

\* the budget failure was raised for a session the ledger knows
C12_BudgetFailureRaised ==
    /\ BudgetMessage \in Range(raised)
    /\ session_id \in DOMAIN budget_manager
    /\ entry = "talk_to_robot"

\* the invocations started by one of the two adapters
AdapterStarted(c) == c.entry \in { "talk_to_robot", "talk_to_robot_simple" }

\* a step of the running invocation touches no entry but its own
OwnEntryOnly ==
    \/ budget_manager' = budget_manager
    \/ \A s \in DOMAIN budget_manager :
          /\ s \in DOMAIN budget_manager'
          /\ s # session_id' => budget_manager'[s] = budget_manager[s]

\* C13: with two invocations interleaved at their suspension points, every
\* invocation started by an adapter has an entry of its own in the ledger,
\* and no step of one invocation changes the cost or the budget of a session
\* other than its own.
C13_SessionIsolation ==
    /\ [](/\ AdapterStarted(Context) => session_id \in DOMAIN budget_manager
          /\ AdapterStarted(parked) => parked.session_id \in DOMAIN budget_manager
          /\ (AdapterStarted(Context) /\ parked.pc # "idle")
                => session_id # parked.session_id
          /\ (AdapterStarted(parked) /\ pc # "idle")
                => session_id # parked.session_id)
    /\ [][OwnEntryOnly]_vars

\* one invocation has recorded cost against its session while the other,
\* started by an adapter, is suspended with its own entry untouched
C13_CostBesideAnotherSession ==
    /\ AdapterStarted(parked)
    /\ parked.pc \notin { "idle", "finished" }
    /\ session_id = PriorSession
    /\ get_current_cost(budget_manager, PriorSession) > TOTAL_BUDGET + 1
    /\ budget_manager[parked.session_id] =
          [total_budget |-> TOTAL_BUDGET, current_cost |-> 0]

RECURSIVE Fragments(_)
\* the fragments of the streaming events, joined in the order of emission
Fragments(evs) ==
    IF evs = << >> THEN << >>
    ELSE (IF Head(evs).state = "streaming" THEN Head(evs).content ELSE << >>)
            \o Fragments(Tail(evs))

\* the citation list of the semantic-loading event
CitationList(evs) ==
    LET at == { i \in 1..Len(evs) : evs[i].has_citations }
    IN  IF at = {} THEN << >> ELSE evs[CHOOSE i \in at : TRUE].citations

HasContent(res) == res.has_content

\* the chunks whose turn of the loop ran to its end
Handled ==
    IF LedgerFailure \in Range(raised) /\ chunks # << >>
    THEN SubSeq(chunks, 1, Len(chunks) - 1)
    ELSE chunks

\* the streaming events, in the order of emission
StreamingEvents == SelectSeq(events, LAMBDA e : e.state = "streaming")

\* C18: the cost of the session is recorded once for each chunk received;
\* for each content fragment received one streaming event with that
\* fragment is emitted, in the order received; the response is the emitted
\* fragments joined in order, and it is what the followup lookup is given.
C18_FragmentsStreamedAndJoined ==
    /\ Cardinality(Indices("update_cost")) = Len(chunks)
    /\ LET fragments == SelectSeq(Handled, HasContent)
       IN  /\ Len(StreamingEvents) = Len(fragments)
           /\ \A i \in 1..Len(fragments) :
                 StreamingEvents[i] = Streaming(fragments[i].content)
    /\ response = Fragments(events)
    /\ \A i \in Indices("multisearch_authored") :
          calls[i].input = << query, Fragments(events) >>

\* two different fragments were streamed and the followup lookup was given
\* the two joined
C18_TwoFragmentsJoined ==
    /\ pc = "finished"
    /\ Last(events).state = "done"
    /\ Len(chunks) >= 2
    /\ chunks[1].content = << "a" >>
    /\ chunks[2].content = << "b" >>
    /\ Indices("multisearch_authored") # {}
    /\ IsPrefix(<< "a", "b" >>, response)

\* the stages that call a collaborator, by the function each one calls
Stages ==
    << "get_top_k_blocks", "Moderation.create", "litellm.completion",
       "multisearch_authored" >>

\* the positions of the generator, in the order of the code
Positions ==
    << "idle", "l153", "l154", "l159", "l160", "l165", "l190", "l200", "finished" >>

Rank(position) == CHOOSE i \in 1..Len(Positions) : Positions[i] = position

\* one step of an invocation: forward, or one more turn of the loop over
\* the stream; the prompt is assembled once; nothing is called or emitted
\* once the generator has ended
Forward ==
    /\ prompt # << >> => prompt' = prompt
    /\ IF pc = "finished"
       THEN pc' = pc /\ calls' = calls /\ events' = events
       ELSE \/ Rank(pc') > Rank(pc)
            \/ pc = "l200" /\ pc' = "l200"

\* C19: an invocation is one linear pass: retrieval, prompt assembly,
\* moderation, the completion request and the followup lookup each happen
\* at most once and in that order, every step goes forward, and after a
\* failure nothing more is called.
C19_SinglePass ==
    /\ [](/\ \A k \in 1..Len(Stages) : Cardinality(Indices(Stages[k])) <= 1
          /\ \A k, l \in 1..Len(Stages) :
                k < l => \A i \in Indices(Stages[k]), j \in Indices(Stages[l]) : i < j
          /\ \A l \in 2..Len(Stages) :
                Indices(Stages[l]) # {} => Indices(Stages[l - 1]) # {}
          /\ prompt # << >> => Indices("get_top_k_blocks") # {}
          /\ Indices("Moderation.create") # {} => prompt # << >>
          /\ raised # << >> => (pc = "finished" /\ Len(raised) = 1))
    /\ [][Forward]_vars

\* an invocation that went through the five stages
C19_AllStagesOnce ==
    /\ pc = "finished"
    /\ \A k \in 1..Len(Stages) : Cardinality(Indices(Stages[k])) = 1
    /\ prompt # << >>
    /\ Last(events).state = "done"

\* C20: whenever the completion service is requested, the ceiling
\* NUM_TOKENS - (tokens of the content and the role of every message of the
\* prompt) - buffer passed to it is a positive integer.
C20_CeilingPositive ==
    Indices("litellm.completion") # {} =>
        /\ max_tokens_completion = MaxTokensCompletion(prompt)
        /\ max_tokens_completion > 0

====
